---- MODULE Spec2Model ----
(***************************************************************************)
(* Model of zzapi (src/main.rs): an axum service with two GET routes,      *)
(*   /zaiko/events/:event_id  (handler `event`,  two chained fetches)      *)
(*   /square.png?u=URL        (handler `square`, fetch + resize to PNG)    *)
(* wrapped, innermost first, by the middleware set_static_cache_control,   *)
(* by axum_response_cache's CacheLayer::with_lifespan(3600) and by a CORS  *)
(* layer.  Every request is an independently scheduled task; the only      *)
(* suspension points of a handler are its upstream fetches.                *)
(***************************************************************************)
EXTENDS Integers, Sequences, FiniteSets, TLC

(* ------------------------------ bounds -------------------------------- *)
\* number of requests in flight at the same time
MaxReq == 2
\* the clock stops here (seconds)
MaxTime == 4800
\* the clock advances in steps of this many seconds
TimeStep == 2400
\* the sides of the source images and of the target canvases go up to this
MaxSide == 5

(* ------------------------- program constants -------------------------- *)
\* CacheLayer::with_lifespan(3600)
Lifespan == 3600
\* set_static_cache_control: StatusCode::OK => 3600, _ => 300
MaxAgeOk == 3600
MaxAgeOther == 300
\* resize_image(&img, 400, 400)
SquareSide == 400

HttpOk == 200
HttpBadRequest == 400
HttpInternalServerError == 500

\* "https://media.zaiko.io/" as a sequence of characters
AllowedPrefix ==
  <<"h","t","t","p","s",":","/","/","m","e","d","i","a",".",
    "z","a","i","k","o",".","i","o","/">>

\* "https://zaiko.io/event/"
EventBase ==
  <<"h","t","t","p","s",":","/","/","z","a","i","k","o",".","i","o","/",
    "e","v","e","n","t","/">>

(* ------------------------------ inputs -------------------------------- *)
\* image URLs a client may send as the query value u
UrlA == AllowedPrefix \o <<"a">>
\* "https://evil.example.com/a.png"
UrlEvil ==
  <<"h","t","t","p","s",":","/","/","e","v","i","l",".","e","x","a","m",
    "p","l","e",".","c","o","m","/","a",".","p","n","g">>
\* "https://media.zaiko.io.evil/a": the allowed host as a prefix of another host
UrlLookalike == SubSeq(AllowedPrefix, 1, Len(AllowedPrefix) - 1) \o <<".","e","v","i","l","/","a">>

Uri(path, query) == [method |-> "GET", path |-> path, query |-> query]

SqAV == Uri(<<"square.png">>, << <<"u", UrlA>>, <<"v", <<"1">> >> >>)
SqVA == Uri(<<"square.png">>, << <<"v", <<"1">> >>, <<"u", UrlA>> >>)
SqEvil == Uri(<<"square.png">>, << <<"u", UrlEvil>> >>)
SqLookalike == Uri(<<"square.png">>, << <<"u", UrlLookalike>> >>)
Ev1 == Uri(<<"zaiko", "events", "1">>, << >>)

Uris == {SqAV, SqVA, SqEvil, SqLookalike, Ev1}

(* --------------------------- pure helpers ----------------------------- *)
\* str::starts_with
StartsWithNoSlash(s, p) ==
  /\ Len(s) >= Len(p) - 1
  /\ SubSeq(s, 1, Len(p) - 1) = SubSeq(p, 1, Len(p) - 1)

StartsWith(s, p) ==
  /\ Len(s) >= Len(p)
  /\ SubSeq(s, 1, Len(p)) = p

\* Query<SquareParams>: the value of the field u, wherever it stands in the query
ParamU(query) ==
  LET i == CHOOSE j \in 1..Len(query) : query[j][1] = "u" IN query[i][2]

\* Path<usize>: the last path segment
EventId(path) == path[Len(path)]

\* Router::route: which handler serves the request
Route(u) == IF u.path = <<"square.png">> THEN "square" ELSE "event"

\* the key of the cache layer: the method and the whole URI, query string included
KeyOfUnordered(u) ==
  <<u.method, u.path,
    SelectSeq(u.query, LAMBDA p : p[1] = "u") \o SelectSeq(u.query, LAMBDA p : p[1] # "u")>>

KeyOf(u) == <<u.method, u.path, u.query>>

Keys == {KeyOf(u) : u \in Uris}

\* StatusCode::is_success, is_client_error, is_server_error
IsSuccess(s) == s >= 200 /\ s <= 299
IsClientError(s) == s >= 400 /\ s <= 499
IsServerError(s) == s >= 500 /\ s <= 599

\* reqwest::Response::error_for_status: TRUE when it returns Err
ErrorForStatus(s) == IsClientError(s) \/ IsServerError(s)

\* html_escape::decode_html_entities, on the entity the inputs carry
decode_html_entities(s) == [i \in DOMAIN s |-> IF s[i] = "&amp;" THEN "&" ELSE s[i]]

(* ----------------------------- responses ------------------------------ *)
\* maxage = 0 stands for a response without a Cache-Control header;
\* origin is the URI of the request whose handler built the response.
Response(status, kind, text, origin) ==
  [status |-> status, kind |-> kind, text |-> text, maxage |-> 0, origin |-> origin]

NoResp == Response(0, "none", << >>, Uri(<< >>, << >>))

\* impl IntoResponse for AppError
AppError(label, origin) ==
  Response(HttpInternalServerError, "text", <<"Something went wrong: ", label>>, origin)

\* square: (StatusCode::BAD_REQUEST, "url not allowed")
NotAllowed(origin) == Response(HttpBadRequest, "text", <<"url not allowed">>, origin)

\* square: the PNG of resize_image(img, 400, 400), img decoded from the bytes at url
SquarePng(url, origin) == Response(HttpOk, "image/png", url, origin)

\* event: Json(Metadata { owner_name })
MetadataJson(owner_name, origin) == Response(HttpOk, "json", owner_name, origin)

\* set_static_cache_control: the header value chosen for a status
MaxAgeAlwaysOk(status) == MaxAgeOk

MaxAgeFor(status) == IF status = HttpOk THEN MaxAgeOk ELSE MaxAgeOther

\* set_static_cache_control applied to the inner service's response
set_static_cache_control(response) ==
  [response EXCEPT !.maxage = MaxAgeFor(response.status)]

(* ------------------------------ upstream ------------------------------ *)
\* What one reqwest::get(..) can end with: a transport error, or a response
\* with a status and a body.  found tells whether the body has what the next
\* step needs (a decodable image; the redirect marker; the og:site_name tag)
\* and text is the captured attribute value.
NetErr == [kind |-> "neterr", status |-> 0, found |-> FALSE, text |-> << >>]
Upstream(status, found, text) ==
  [kind |-> "resp", status |-> status, found |-> found, text |-> text]

\* the redirect target as the first document spells it inside the attribute
SecondUrl ==
  <<"h","t","t","p","s",":","/","/","x",".","z","a","i","k","o",".","i","o","/","e",
    "?","a","=","1","&amp;","b","=","2">>

SquareOutcomes ==
  {NetErr, Upstream(200, TRUE, << >>), Upstream(200, FALSE, << >>),
   Upstream(300, TRUE, << >>), Upstream(404, FALSE, << >>)}

FirstOutcomes ==
  {NetErr, Upstream(200, TRUE, SecondUrl), Upstream(200, FALSE, << >>),
   Upstream(300, TRUE, SecondUrl), Upstream(404, FALSE, << >>)}

SecondOutcomes ==
  {NetErr, Upstream(200, TRUE, <<"A","&amp;","B">>), Upstream(200, FALSE, << >>),
   Upstream(404, TRUE, <<"Z">>)}

\* .await?.error_for_status()?: the fetch step yields a body
FetchOk(o) == o.kind = "resp" /\ ~ErrorForStatus(o.status)

\* the anyhow error a failed fetch step carries
FetchErrLabel(o) == IF o.kind = "neterr" THEN "error sending request" ELSE "HTTP status error"

(* --------------------------- resize_image ----------------------------- *)
\* An RGBA pixel.  Rgba([0, 0, 0, 0]) is the pixel the canvas is filled with.
OpaqueBlack == <<0, 0, 0, 255>>

Transparent == <<0, 0, 0, 0>>

\* the pixels a source image is made of: opaque ones or fully transparent ones
Opaque == <<255, 255, 255, 255>>
SourcePixels == {Opaque, Transparent}

\* f64::round of a / b for a >= 0, b > 0: to the nearest, halves upwards
RoundDiv(a, b) == (2 * a + b) \div (2 * b)

Max(a, b) == IF a >= b THEN a ELSE b

\* image's resize_dimensions(.., fill = false): the scale is the smaller of
\* width / src_w and height / src_h; TRUE when that is width / src_w
UseWidthRatioFill(src_w, src_h, width, height) == width * src_h >= height * src_w

UseWidthRatio(src_w, src_h, width, height) == width * src_h <= height * src_w

\* DynamicImage::resize (line 121): the dimensions of the resized image,
\* max(round(side * ratio), 1) for either side
resize_dimensions_int_ratio(src_w, src_h, width, height) ==
  LET scale == IF width \div src_w <= height \div src_h
                 THEN width \div src_w ELSE height \div src_h
  IN <<Max(src_w * scale, 1), Max(src_h * scale, 1)>>

resize_dimensions(src_w, src_h, width, height) ==
  IF UseWidthRatio(src_w, src_h, width, height)
    THEN <<Max(RoundDiv(src_w * width, src_w), 1), Max(RoundDiv(src_h * width, src_w), 1)>>
    ELSE <<Max(RoundDiv(src_w * height, src_h), 1), Max(RoundDiv(src_h * height, src_h), 1)>>

\* An image: its dimensions and its pixels, at (x, y) with 0 <= x < w, 0 <= y < h
Image(w, h, px) == [w |-> w, h |-> h, px |-> px]

Coords(w, h) == (0..(w - 1)) \X (0..(h - 1))

\* a source image of one colour
Plain(w, h, pixel) == Image(w, h, [c \in Coords(w, h) |-> pixel])

\* img.resize(width, height, Lanczos3): an image of one colour resampled
\* is an image of that colour
Resized(img, width, height) ==
  LET d == resize_dimensions(img.w, img.h, width, height)
  IN Plain(d[1], d[2], img.px[<<0, 0>>])

\* ImageBuffer::from_pixel(width, height, pixel) (line 123)
from_pixel_transposed(width, height, pixel) == Plain(height, width, pixel)

from_pixel(width, height, pixel) == Plain(width, height, pixel)

\* u32 subtraction a - b (lines 125-126).  below is TRUE when b > a: the
\* subtraction then panics or wraps around, depending on the build.
U32Sub(a, b) == [below |-> b > a, value |-> IF b > a THEN 0 ELSE a - b]

\* (width - new_width) / 2 (lines 125-126)
CenterOffsetCeil(total, part) == (U32Sub(total, part).value + 1) \div 2

CenterOffset(total, part) == U32Sub(total, part).value \div 2

\* Pixel::blend for Rgba<u8>, on pixels that are opaque or fully transparent:
\* a transparent pixel leaves the one below, an opaque one replaces it
Blend(bottom, top) == IF top[4] = 0 THEN bottom ELSE top

\* imageops::overlay(bottom, top, x, y) (lines 128-133): top is blended onto
\* bottom where the two overlap, the rest of bottom stays
overlay(bottom, top, x, y) ==
  [bottom EXCEPT !.px =
     [c \in Coords(bottom.w, bottom.h) |->
        IF /\ c[1] >= x /\ c[1] < x + top.w
           /\ c[2] >= y /\ c[2] < y + top.h
          THEN Blend(bottom.px[c], top.px[<<c[1] - x, c[2] - y>>])
          ELSE bottom.px[c]]]

\* resize_image (lines 120-135), with the values it computes on the way
resize_image(img, width, height) ==
  LET resized_img == Resized(img, width, height)
      output_img == from_pixel(width, height, Transparent)
      new_width == resized_img.w
      new_height == resized_img.h
      x_offset == CenterOffset(width, new_width)
      y_offset == CenterOffset(height, new_height)
  IN [new_width |-> new_width, new_height |-> new_height,
      x_offset |-> x_offset, y_offset |-> y_offset,
      below |-> U32Sub(width, new_width).below \/ U32Sub(height, new_height).below,
      output |-> overlay(output_img, resized_img, x_offset, y_offset)]

(* ------------------------------- state -------------------------------- *)
Req == 1..MaxReq

VARIABLES
  now,        \* the clock, in seconds
  cache,      \* the TimedCache of the cache layer: key -> entry
  pc,         \* where each request's task stands
  uri,        \* the request's method and URI
  stale,      \* the cache layer's lookup found an expired entry (Some, evicted)
  resp,       \* the response the client of the request receives
  hit,        \* history: the response came out of the cache
  ran,        \* history: the route handler was polled for this request
  annotated,  \* history: set_static_cache_control ran for this request
  fetches,    \* history: the URLs this request fetched upstream, in order
  got,        \* history: what each of those fetches ended with
  rz          \* one call of resize_image: its arguments and what it returned

vars == <<now, cache, pc, uri, stale, resp, hit, ran, annotated, fetches, got, rz>>

\* no call of resize_image is being looked at
NoResult ==
  [new_width |-> 0, new_height |-> 0, x_offset |-> 0, y_offset |-> 0,
   below |-> FALSE, output |-> Plain(0, 0, Transparent)]

RzIdle ==
  [pc |-> "none", img |-> Plain(1, 1, Transparent), width |-> 1, height |-> 1,
   res |-> NoResult]

\* The cache layer is axum_response_cache's CacheLayer over a
\* cached::TimedCache (main.rs:146).  As that crate documents, it keys a
\* response by method and URI, caches only responses with a success status,
\* and holds no table of requests in flight: its lock covers the lookup
\* alone.  A lookup that finds an expired entry sets it again before the
\* inner service is awaited.
\*
\* An entry of cached::TimedCache: the stored response and the instant it was
\* set.  born is history: the clock when update_cache stored the response.
Entry(response, at, born) ==
  [present |-> TRUE, resp |-> response, at |-> at, born |-> born]

NoEntry == [present |-> FALSE, resp |-> NoResp, at |-> 0, born |-> 0]

\* TimedCache: an entry is expired once elapsed().as_secs() >= seconds
IsLiveShort(e, t) == e.present /\ t - e.at < MaxAgeOther

IsLive(e, t) == e.present /\ t - e.at < Lifespan

\* CachedResponse::into_response: what a hit hands to the client
ServeCachedRemaining(e, t) == [e.resp EXCEPT !.maxage = Lifespan - (t - e.at)]

ServeCached(e, t) == e.resp

\* the cache layer stores a response only when its status is a success
ShouldStoreAny(status) == TRUE

ShouldStore(status) == IsSuccess(status)

Init ==
  /\ now = 0
  /\ cache = [k \in Keys |-> NoEntry]
  /\ pc = [r \in Req |-> "idle"]
  /\ uri = [r \in Req |-> Uri(<< >>, << >>)]
  /\ stale = [r \in Req |-> FALSE]
  /\ resp = [r \in Req |-> NoResp]
  /\ hit = [r \in Req |-> FALSE]
  /\ ran = [r \in Req |-> FALSE]
  /\ annotated = [r \in Req |-> FALSE]
  /\ fetches = [r \in Req |-> << >>]
  /\ got = [r \in Req |-> << >>]
  /\ rz = RzIdle

\* A response is read by its client, and the request's task ends, before
\* the service takes its next step.
Quiet == \A q \in Req : pc[q] \notin {"done", "cancelled"}

\* time passes
Tick ==
  /\ Quiet
  /\ now + TimeStep <= MaxTime
  /\ now' = now + TimeStep
  /\ UNCHANGED <<cache, pc, uri, stale, resp, hit, ran, annotated, fetches, got, rz>>

\* a new request is served by the first free task slot
MayArrive(r) == Quiet /\ pc[r] = "idle" /\ \A q \in Req : q < r => pc[q] # "idle"

\* CacheService::call, (Some(value), false): a live entry answers the request
ArriveHit(r, u) ==
  /\ MayArrive(r)
  /\ IsLive(cache[KeyOf(u)], now)
  /\ uri' = [uri EXCEPT ![r] = u]
  /\ resp' = [resp EXCEPT ![r] = ServeCached(cache[KeyOf(u)], now)]
  /\ hit' = [hit EXCEPT ![r] = TRUE]
  /\ pc' = [pc EXCEPT ![r] = "done"]
  /\ UNCHANGED <<now, cache, stale, ran, annotated, fetches, got, rz>>

\* CacheService::call, (None, _): no entry, the inner service is awaited
ArriveMiss(r, u) ==
  /\ MayArrive(r)
  /\ ~cache[KeyOf(u)].present
  /\ uri' = [uri EXCEPT ![r] = u]
  /\ pc' = [pc EXCEPT ![r] = "handler"]
  /\ UNCHANGED <<now, cache, stale, resp, hit, ran, annotated, fetches, got, rz>>

\* CacheService::call, (Some(stale), true): the expired entry is set again
\* at once, with a new instant, and the inner service is awaited
ArriveStale(r, u) ==
  /\ MayArrive(r)
  /\ cache[KeyOf(u)].present
  /\ ~IsLive(cache[KeyOf(u)], now)
  /\ uri' = [uri EXCEPT ![r] = u]
  /\ cache' = [cache EXCEPT ![KeyOf(u)].at = now]
  /\ stale' = [stale EXCEPT ![r] = TRUE]
  /\ pc' = [pc EXCEPT ![r] = "handler"]
  /\ UNCHANGED <<now, resp, hit, ran, annotated, fetches, got, rz>>

\* The handler of request r has returned `inner`: the response passes
\* set_static_cache_control, then the cache layer, which stores it
\* (update_cache) when its status is a success, drops the entry it had set
\* again when a refresh failed, and lets any other response through.
Finish(r, inner) ==
  LET out == set_static_cache_control(inner)
      k == KeyOf(uri[r])
  IN /\ annotated' = [annotated EXCEPT ![r] = TRUE]
     /\ resp' = [resp EXCEPT ![r] = out]
     /\ cache' = IF ShouldStore(out.status)
                   THEN [cache EXCEPT ![k] = Entry(out, now, now)]
                 ELSE IF stale[r]
                   THEN [cache EXCEPT ![k] = NoEntry]
                 ELSE cache
     /\ pc' = [pc EXCEPT ![r] = "done"]

(* ------------------------------ square -------------------------------- *)
\* square, lines 96-98: the URL is not allowed; the handler returns at once
SquareReject(r) ==
  /\ Quiet
  /\ pc[r] = "handler"
  /\ Route(uri[r]) = "square"
  /\ ~StartsWith(ParamU(uri[r].query), AllowedPrefix)
  /\ ran' = [ran EXCEPT ![r] = TRUE]
  /\ Finish(r, NotAllowed(uri[r]))
  /\ UNCHANGED <<now, uri, stale, hit, fetches, got, rz>>

\* square, line 100: reqwest::get(query.u) is issued and the task suspends
SquareFetch(r) ==
  /\ Quiet
  /\ pc[r] = "handler"
  /\ Route(uri[r]) = "square"
  /\ StartsWith(ParamU(uri[r].query), AllowedPrefix)
  /\ ran' = [ran EXCEPT ![r] = TRUE]
  /\ fetches' = [fetches EXCEPT ![r] = Append(@, ParamU(uri[r].query))]
  /\ pc' = [pc EXCEPT ![r] = "sq_fetch"]
  /\ UNCHANGED <<now, cache, uri, stale, resp, hit, annotated, got, rz>>

\* square, lines 101-117: what the handler returns once the fetch has ended
\* with o.  (Writing the PNG into an in-memory buffer does not fail.)
SquareResult(r, o) ==
  IF ~FetchOk(o) THEN AppError(FetchErrLabel(o), uri[r])
  ELSE IF ~o.found THEN AppError("image decode error", uri[r])
  ELSE SquarePng(fetches[r][1], uri[r])

SquareFetchDone(r, o) ==
  /\ Quiet
  /\ pc[r] = "sq_fetch"
  /\ got' = [got EXCEPT ![r] = Append(@, o)]
  /\ Finish(r, SquareResult(r, o))
  /\ UNCHANGED <<now, uri, stale, hit, ran, fetches, rz>>

(* ------------------------------- event -------------------------------- *)
\* event, line 57: the first fetch is issued
EventFetchFirst(r) ==
  /\ Quiet
  /\ pc[r] = "handler"
  /\ Route(uri[r]) = "event"
  /\ ran' = [ran EXCEPT ![r] = TRUE]
  /\ fetches' = [fetches EXCEPT ![r] = Append(@, EventBase \o <<EventId(uri[r].path)>>)]
  /\ pc' = [pc EXCEPT ![r] = "ev_first"]
  /\ UNCHANGED <<now, cache, uri, stale, resp, hit, annotated, got, rz>>

\* event, lines 58-68: the first fetch and the first extraction both succeed
FirstOk(o) == FetchOk(o) /\ o.found

\* event, lines 58-65: the error the handler returns at hop (a)
FirstErrorSecondLabel(r, o) ==
  IF ~FetchOk(o) THEN AppError(FetchErrLabel(o), uri[r])
  ELSE AppError("second: og:site_name no context", uri[r])

FirstError(r, o) ==
  IF ~FetchOk(o) THEN AppError(FetchErrLabel(o), uri[r])
  ELSE AppError("first: no context", uri[r])

\* event, lines 58-70: the first fetch has ended with o; on success the
\* captured text, as captured, is fetched next
EventFirstDone(r, o) ==
  /\ Quiet
  /\ pc[r] = "ev_first"
  /\ got' = [got EXCEPT ![r] = Append(@, o)]
  /\ IF FirstOk(o)
       THEN /\ fetches' = [fetches EXCEPT ![r] = Append(@, o.text)]
            /\ pc' = [pc EXCEPT ![r] = "ev_second"]
            /\ UNCHANGED <<cache, resp, annotated>>
       ELSE /\ Finish(r, FirstError(r, o))
            /\ UNCHANGED fetches
  /\ UNCHANGED <<now, uri, stale, hit, ran, rz>>

\* event, lines 71-87: what the handler returns once the second fetch has ended
SecondResult(r, o) ==
  IF ~FetchOk(o) THEN AppError(FetchErrLabel(o), uri[r])
  ELSE IF ~o.found THEN AppError("second: og:site_name no context", uri[r])
  ELSE MetadataJson(decode_html_entities(o.text), uri[r])

EventSecondDone(r, o) ==
  /\ Quiet
  /\ pc[r] = "ev_second"
  /\ got' = [got EXCEPT ![r] = Append(@, o)]
  /\ Finish(r, SecondResult(r, o))
  /\ UNCHANGED <<now, uri, stale, hit, ran, fetches, rz>>

(* ------------------------------ serving -------------------------------- *)
\* the points at which a handler is suspended on reqwest::get(..).await
AwaitingFetch == {"sq_fetch", "ev_first", "ev_second"}

\* The cache after the future of request r is dropped at such a point:
\* update_cache comes after the await of the inner service, so it never runs.
DroppedFutureStoresPartial(r) ==
  [cache EXCEPT ![KeyOf(uri[r])] = Entry(Response(HttpOk, "partial", << >>, uri[r]), now, now)]

DroppedFuture(r) == cache

\* axum::serve: the connection of request r goes away while its fetch is
\* outstanding; the request's future is dropped and nothing is answered
Cancel(r) ==
  /\ Quiet
  /\ pc[r] \in AwaitingFetch
  /\ pc' = [pc EXCEPT ![r] = "cancelled"]
  /\ cache' = DroppedFuture(r)
  /\ UNCHANGED <<now, uri, stale, resp, hit, ran, annotated, fetches, got, rz>>

\* axum::serve: the response has been written and the request's task ends
Retire(r) ==
  /\ pc[r] \in {"done", "cancelled"}
  /\ pc' = [pc EXCEPT ![r] = "idle"]
  /\ uri' = [uri EXCEPT ![r] = Uri(<< >>, << >>)]
  /\ stale' = [stale EXCEPT ![r] = FALSE]
  /\ resp' = [resp EXCEPT ![r] = NoResp]
  /\ hit' = [hit EXCEPT ![r] = FALSE]
  /\ ran' = [ran EXCEPT ![r] = FALSE]
  /\ annotated' = [annotated EXCEPT ![r] = FALSE]
  /\ fetches' = [fetches EXCEPT ![r] = << >>]
  /\ got' = [got EXCEPT ![r] = << >>]
  /\ UNCHANGED <<now, cache, rz>>

(* --------------------------- specification ---------------------------- *)
Next ==
  \/ Tick
  \/ \E r \in Req, u \in Uris : ArriveHit(r, u)
  \/ \E r \in Req, u \in Uris : ArriveMiss(r, u)
  \/ \E r \in Req, u \in Uris : ArriveStale(r, u)
  \/ \E r \in Req : SquareReject(r)
  \/ \E r \in Req : SquareFetch(r)
  \/ \E r \in Req, o \in SquareOutcomes : SquareFetchDone(r, o)
  \/ \E r \in Req : EventFetchFirst(r)
  \/ \E r \in Req, o \in FirstOutcomes : EventFirstDone(r, o)
  \/ \E r \in Req, o \in SecondOutcomes : EventSecondDone(r, o)
  \/ \E r \in Req : Cancel(r)
  \/ \E r \in Req : Retire(r)

Spec == Init /\ [][Next]_vars

(* ----------------------- resize_image on its own ---------------------- *)
\* the arguments of one call: a valid source image and a positive target
RzInputs ==
  {[pc |-> "called", img |-> Plain(w, h, p), width |-> tw, height |-> th,
    res |-> NoResult] :
     w \in 1..MaxSide, h \in 1..MaxSide, p \in SourcePixels,
     tw \in 1..MaxSide, th \in 1..MaxSide}

InitResize ==
  /\ now = 0
  /\ cache = [k \in Keys |-> NoEntry]
  /\ pc = [r \in Req |-> "idle"]
  /\ uri = [r \in Req |-> Uri(<< >>, << >>)]
  /\ stale = [r \in Req |-> FALSE]
  /\ resp = [r \in Req |-> NoResp]
  /\ hit = [r \in Req |-> FALSE]
  /\ ran = [r \in Req |-> FALSE]
  /\ annotated = [r \in Req |-> FALSE]
  /\ fetches = [r \in Req |-> << >>]
  /\ got = [r \in Req |-> << >>]
  /\ rz \in RzInputs

\* resize_image runs and returns
ResizeImage ==
  /\ rz.pc = "called"
  /\ rz' = [rz EXCEPT !.pc = "returned",
                       !.res = resize_image(rz.img, rz.width, rz.height)]
  /\ UNCHANGED <<now, cache, pc, uri, stale, resp, hit, ran, annotated, fetches, got>>

NextResize == ResizeImage

SpecResize == InitResize /\ [][NextResize]_vars

(* ------------------------------- claims -------------------------------- *)
InFlight == {"handler", "sq_fetch", "ev_first", "ev_second"}

\* the step in which the handler pipeline of request r returns its response
Completes(r) == pc[r] \in InFlight /\ pc'[r] = "done"

\* the step in which request r is answered out of the cache
ServedFromCache(r) == pc[r] = "idle" /\ pc'[r] = "done"

\* u does not start with "https://media.zaiko.io/", character by character
NotPrefixed(u) ==
  \E i \in 1..Len(AllowedPrefix) :
     IF i > Len(u) THEN TRUE ELSE u[i] # AllowedPrefix[i]

\* a fetch ended with a success status and a body that has what the next step needs
StepSucceeded(o) == o.kind = "resp" /\ o.status >= 200 /\ o.status <= 299 /\ o.found

\* C1: two requests to /square.png with the same allowed u that are in
\* flight together (both issued before either has completed) have fetched
\* the URL at most once between them.
C1_AtMostOneFetch ==
  \A r1 \in Req, r2 \in Req :
     ( /\ r1 # r2
       /\ pc[r1] \in InFlight /\ pc[r2] \in InFlight
       /\ uri[r1] = uri[r2]
       /\ Route(uri[r1]) = "square" )
     => Len(fetches[r1]) + Len(fetches[r2]) <= 1

\* C2: a response stored at time t0 is never served to a request that
\* arrives later than t0 + TTL.
C2_NotServedAfterTtl ==
  [][\A r \in Req :
        ServedFromCache(r) => now <= cache[KeyOf(uri'[r])].born + 3600]_vars

\* C3: a request that finds a live entry under its key is answered with the
\* stored response; no handler, no annotator and no fetch runs for it.
C3_LiveEntryAnswers ==
  [][\A r \in Req :
        (pc[r] = "idle" /\ pc'[r] # "idle")
        => LET e == cache[KeyOf(uri'[r])]
           IN (e.present /\ now - e.at < 3600)
              => /\ pc'[r] = "done"
                 /\ hit'[r]
                 /\ resp'[r] = e.resp
                 /\ ~ran'[r]
                 /\ ~annotated'[r]
                 /\ fetches'[r] = << >>
                 /\ cache' = cache]_vars

C3_Witness ==
  \E r \in Req :
     /\ pc[r] = "done" /\ hit[r] /\ ~ran[r] /\ ~annotated[r]
     /\ cache[KeyOf(uri[r])].present
     /\ now > cache[KeyOf(uri[r])].at
     /\ resp[r] = cache[KeyOf(uri[r])].resp
     /\ resp[r].status = 200

C5_DisallowedRejected ==
  \A r \in Req :
     (pc[r] # "idle" /\ Route(uri[r]) = "square" /\ NotPrefixed(ParamU(uri[r].query)))
     => /\ fetches[r] = << >>
        /\ pc[r] \in {"handler", "done"}
        /\ pc[r] = "done" => /\ resp[r].status = 400
                             /\ resp[r].text = <<"url not allowed">>

C5_Witness ==
  \E r \in Req :
     /\ pc[r] = "done" /\ uri[r] = SqLookalike
     /\ resp[r].status = 400 /\ fetches[r] = << >>

\* C6: the hop (b) fetch is issued only after hop (a)'s fetch ended with a
\* success status and its document had the redirect marker; otherwise the
\* request ends with a 500 and one fetch.
C6_SecondOnlyAfterFirst ==
  \A r \in Req :
     (Route(uri[r]) = "event" /\ Len(got[r]) >= 1)
     => IF StepSucceeded(got[r][1])
          THEN Len(fetches[r]) = 2
          ELSE Len(fetches[r]) = 1 /\ pc[r] = "done" /\ resp[r].status = 500

\* C7: every response carries Cache-Control max-age 3600 when its status is
\* a success status and 300 otherwise.
C7_CacheControlOnEveryResponse ==
  \A r \in Req :
     pc[r] = "done" =>
        resp[r].maxage =
           IF resp[r].status >= 200 /\ resp[r].status <= 299 THEN 3600 ELSE 300

C7_Witness ==
  \E r \in Req :
     /\ pc[r] = "done" /\ resp[r].status = 400 /\ resp[r].maxage = 300
     /\ \E k \in Keys : cache[k].present /\ cache[k].resp.maxage = 3600

\* C8: the max-age a stored entry carries is the one the computing response
\* carried, it does not change while the entry stays in the cache, and every
\* response served from the entry carries it.
C8_MaxAgeFrozen ==
  [][/\ \A r \in Req :
          /\ (Completes(r) /\ cache'[KeyOf(uri[r])] # cache[KeyOf(uri[r])]
                /\ cache'[KeyOf(uri[r])].present)
             => cache'[KeyOf(uri[r])].resp.maxage = resp'[r].maxage
          /\ ServedFromCache(r)
             => resp'[r].maxage = cache[KeyOf(uri'[r])].resp.maxage
     /\ \A k \in Keys :
          (cache[k].present /\ cache'[k].present /\ cache'[k].born = cache[k].born)
          => cache'[k].resp.maxage = cache[k].resp.maxage]_vars

C8_Witness ==
  \E r \in Req :
     /\ pc[r] = "done" /\ hit[r]
     /\ now > cache[KeyOf(uri[r])].born
     /\ resp[r].maxage = 3600
     /\ resp[r].maxage = cache[KeyOf(uri[r])].resp.maxage

\* C9: a request in which any fetch, extraction or decoding step failed
\* (a fetch fails also by a non-success upstream status) is answered 500 with
\* a plain-text diagnostic, and a 200 is computed only when every step of the
\* pipeline succeeded.
C9_FailuresAre500 ==
  \A r \in Req :
     (pc[r] = "done" /\ ~hit[r] /\ resp[r].status # 400)
     => LET failed == \E i \in DOMAIN got[r] : ~StepSucceeded(got[r][i])
            steps == IF Route(uri[r]) = "square" THEN 1 ELSE 2
        IN /\ failed => /\ resp[r].status = 500
                        /\ resp[r].kind = "text"
                        /\ resp[r].text[1] = "Something went wrong: "
           /\ resp[r].status = 200 => ~failed /\ Len(got[r]) = steps

\* C10: a request is only ever answered with a response computed for its own
\* method, path and query string, and every entry sits under the key of the
\* request it was computed for.
C10_ExactKey ==
  /\ \A r \in Req : pc[r] = "done" => resp[r].origin = uri[r]
  /\ \A k \in DOMAIN cache :
        cache[k].present =>
           k = <<cache[k].resp.origin.method, cache[k].resp.origin.path,
                 cache[k].resp.origin.query>>

C10_Witness ==
  /\ cache[KeyOf(SqAV)].present
  /\ cache[KeyOf(SqVA)].present
  /\ \E r \in Req : pc[r] = "done" /\ hit[r] /\ uri[r] = SqVA

\* resize_image has returned
Returned == rz.pc = "returned"

\* c lies in the rectangle the resized content occupies
InContent(c) ==
  /\ c[1] >= rz.res.x_offset /\ c[1] < rz.res.x_offset + rz.res.new_width
  /\ c[2] >= rz.res.y_offset /\ c[2] < rz.res.y_offset + rz.res.new_height

\* C11: for positive targets and valid sources, the image resize_image
\* returns is exactly width x height.
C11_ExactDimensions ==
  Returned =>
     /\ rz.res.output.w = rz.width
     /\ rz.res.output.h = rz.height
     /\ DOMAIN rz.res.output.px = (0..(rz.width - 1)) \X (0..(rz.height - 1))

C11_Witness ==
  /\ Returned
  /\ rz.width # rz.height
  /\ rz.img.w # rz.width /\ rz.img.h # rz.height
  /\ rz.res.output.w = rz.width /\ rz.res.output.h = rz.height

\* C12: the offsets are the floors of half the differences: the padding
\* before the content is at most the padding after it and smaller by at
\* most one pixel, and by exactly one when the difference is odd.
C12_FloorCentering ==
  Returned =>
     LET dx == rz.width - rz.res.new_width
         dy == rz.height - rz.res.new_height
         left == rz.res.x_offset
         right == dx - rz.res.x_offset
         top == rz.res.y_offset
         bottom == dy - rz.res.y_offset
     IN /\ 2 * left <= dx /\ dx <= 2 * left + 1
        /\ 2 * top <= dy /\ dy <= 2 * top + 1
        /\ left <= right /\ right <= left + 1
        /\ top <= bottom /\ bottom <= top + 1
        /\ dx % 2 = 1 => right = left + 1
        /\ dy % 2 = 1 => bottom = top + 1
        /\ dx = 1 => left = 0
        /\ dy = 1 => top = 0

C12_Witness ==
  /\ Returned
  /\ rz.width - rz.res.new_width = 3
  /\ rz.res.x_offset = 1
  /\ rz.res.y_offset = 0

\* C13: every pixel of the returned image outside the rectangle of the
\* resized content is (0, 0, 0, 0).
C13_OutsideTransparent ==
  Returned =>
     \A c \in DOMAIN rz.res.output.px :
        ~InContent(c) => rz.res.output.px[c] = <<0, 0, 0, 0>>

C13_Witness ==
  /\ Returned
  /\ rz.img.px[<<0, 0>>] = <<255, 255, 255, 255>>
  /\ \E c \in DOMAIN rz.res.output.px :
        ~InContent(c) /\ rz.res.output.px[c] = <<0, 0, 0, 0>>
  /\ \E c \in DOMAIN rz.res.output.px :
        InContent(c) /\ rz.res.output.px[c] = <<255, 255, 255, 255>>

\* C14: when src_w * height = src_h * width the resized image is
\* width x height, both offsets are 0 and the content covers the canvas.
C14_SameAspectFills ==
  (Returned /\ rz.img.w * rz.height = rz.img.h * rz.width) =>
     /\ rz.res.new_width = rz.width
     /\ rz.res.new_height = rz.height
     /\ rz.res.x_offset = 0
     /\ rz.res.y_offset = 0
     /\ \A c \in DOMAIN rz.res.output.px : InContent(c)
     /\ \A c \in DOMAIN rz.res.output.px : rz.res.output.px[c] = rz.img.px[<<0, 0>>]

C14_Witness ==
  /\ Returned
  /\ rz.img.w * rz.height = rz.img.h * rz.width
  /\ rz.img.w # rz.width
  /\ rz.img.w # rz.img.h
  /\ rz.img.px[<<0, 0>>] = <<255, 255, 255, 255>>
  /\ rz.res.new_width = rz.width

\* C16: 1 <= new_width <= width and 1 <= new_height <= height, so neither
\* u32 subtraction goes below zero and the content lies inside the canvas.
C16_NoUnderflow ==
  Returned =>
     /\ 1 <= rz.res.new_width /\ rz.res.new_width <= rz.width
     /\ 1 <= rz.res.new_height /\ rz.res.new_height <= rz.height
     /\ ~rz.res.below
     /\ rz.res.x_offset + rz.res.new_width <= rz.width
     /\ rz.res.y_offset + rz.res.new_height <= rz.height

C16_Witness ==
  /\ Returned
  /\ rz.img.w > rz.width /\ rz.img.h < rz.height
  /\ rz.res.new_width = rz.width
  /\ rz.res.new_height = 1
  /\ rz.res.new_height < rz.img.h

\* C15: a handler whose request is cancelled while a fetch is outstanding
\* writes nothing to the cache; whenever an entry is written it is either
\* the stored response set again or the whole response of a handler
\* pipeline that returned in that step, so every stored entry is a complete
\* response.
C15_CancelNeverStores ==
  [][/\ \A r \in Req :
          (pc[r] \in {"sq_fetch", "ev_first", "ev_second"} /\ pc'[r] = "cancelled")
             => cache' = cache
     /\ \A k \in DOMAIN cache :
          (cache'[k].present /\ cache'[k] # cache[k]) =>
             \/ cache[k].present /\ cache'[k].resp = cache[k].resp
             \/ \E r \in Req :
                  /\ Completes(r)
                  /\ KeyOf(uri[r]) = k
                  /\ annotated'[r]
                  /\ cache'[k].resp = resp'[r]
     /\ \A k \in DOMAIN cache :
          cache'[k].present =>
             /\ cache'[k].resp.kind \in {"image/png", "json"}
             /\ cache'[k].resp.status = 200
             /\ cache'[k].resp.maxage = 3600]_vars

C15_Witness ==
  \E r \in Req, q \in Req :
     /\ q # r
     /\ pc[r] = "cancelled" /\ Len(fetches[r]) = 2 /\ Len(got[r]) = 1
     /\ resp[r].kind = "none"
     /\ ~cache[KeyOf(uri[r])].present
     /\ uri[q] = uri[r] /\ pc[q] = "ev_first"

\* C17: the square handler fetches at most once and the event handler at
\* most twice, and once a fetch has failed or come back with a status
\* outside 200..299 the request fetches nothing more and ends with 500.
C17_NoRetry ==
  \A r \in Req :
     /\ Route(uri[r]) = "square" => Len(fetches[r]) <= 1
     /\ Route(uri[r]) = "event" => Len(fetches[r]) <= 2
     /\ \A i \in 1..Len(got[r]) :
          ~(got[r][i].kind = "resp" /\ got[r][i].status >= 200 /\ got[r][i].status <= 299)
             => /\ Len(fetches[r]) = i
                /\ pc[r] = "done"
                /\ resp[r].status = 500

\* C18: the redirect target taken from the first document is entity-decoded
\* before it is fetched, and the site name taken from the second document
\* is entity-decoded before it is returned as owner_name.
C18_ExtractedValuesDecoded ==
  \A r \in Req :
     /\ Len(fetches[r]) >= 2 =>
          fetches[r][2] = [i \in DOMAIN got[r][1].text |->
                             IF got[r][1].text[i] = "&amp;" THEN "&" ELSE got[r][1].text[i]]
     /\ (pc[r] = "done" /\ ~hit[r] /\ resp[r].kind = "json") =>
          resp[r].text = [i \in DOMAIN got[r][2].text |->
                            IF got[r][2].text[i] = "&amp;" THEN "&" ELSE got[r][2].text[i]]

\* C19: a first document without the redirect marker and a second document
\* without the name field end in 500 responses with different labels, and
\* a response carries a hop's label exactly when that hop's extraction failed.
C19_LabelsPerHop ==
  \A r \in Req :
     pc[r] = "done" =>
        LET first == resp[r].text = <<"Something went wrong: ", "first: no context">>
            second == resp[r].text = <<"Something went wrong: ", "second: og:site_name no context">>
            missing(i) == /\ ~hit[r] /\ Route(uri[r]) = "event" /\ Len(got[r]) = i
                          /\ got[r][i].kind = "resp" /\ got[r][i].status < 400
                          /\ ~got[r][i].found
        IN /\ first <=> missing(1)
           /\ second <=> missing(2)
           /\ ~(first /\ second)
           /\ (first \/ second) => resp[r].status = 500

C19_Witness ==
  \E r \in Req :
     /\ pc[r] = "done" /\ Len(got[r]) = 2 /\ ~got[r][2].found /\ got[r][2].kind = "resp"
     /\ got[r][1].found
     /\ resp[r].status = 500
     /\ resp[r].text = <<"Something went wrong: ", "second: og:site_name no context">>

====
